---------------------------- MODULE Spec2Model ----------------------------
(***************************************************************************)
(* Crossword generator of the Magazine Portal API (server.py).             *)
(*                                                                         *)
(* The model covers the CrosswordGenerator class (grid, legality check,    *)
(* placement, intersection finder, generate, clue numbering), the Word     *)
(* Source helper _generate_words_with_ai and the /api/crossword/generate   *)
(* route.  A run is either a request to the route ("endpoint") or a direct *)
(* use of the CrosswordGenerator class with a word list ("direct").        *)
(*                                                                         *)
(* A word is a sequence of one-character strings; a grid is a function     *)
(* from <<row, col>> (both 0-based) to a one-character string.  Python     *)
(* list indexing is kept: index i of a list of length n is legal when      *)
(* -n <= i < n and a negative index counts from the end.                   *)
(***************************************************************************)
EXTENDS Integers, Sequences, FiniteSets, TLC

VARIABLES
    pc,            \* position of the run
    entry,         \* "none" | "endpoint" | "direct"
    size,          \* grid size of the run
    count,         \* word_count of the request
    configured,    \* the Azure environment variables are all set
    reply,         \* what the HTTP call to the provider came back with
    wsCalls,       \* number of _http_post calls made for the request
    built,         \* a CrosswordGenerator has been constructed
    word_data,     \* the argument of generate
    words,         \* generate's local: word_data sorted
    idx,           \* generate's loop position in words (1-based)
    attempts,      \* generate's local of the random fallback loop
    grid,          \* CrosswordGenerator.grid
    placed_words,  \* CrosswordGenerator.placed_words
    number_map,    \* get_numbered_clues: (cell, number) in insertion order
    across,        \* response 'across'
    down,          \* response 'down'
    word_count,    \* response 'word_count'
    status         \* "none" | "200" | "500" | "502" | "IndexError"

vars == <<pc, entry, size, count, configured, reply, wsCalls, built, word_data,
          words, idx, attempts, grid, placed_words, number_map, across, down,
          word_count, status>>

---------------------------------------------------------------------------
(* Bounds of the model *)

\* largest grid size of a direct use of the class
MaxSize == 4
\* longest word list of a direct use of the class
MaxWords == 2

(* Program constants *)

EMPTY == "#"
MaxAttempts == 100
MinSize == 10
DefaultSize == 15
MinCount == 5
DefaultCount == 10

---------------------------------------------------------------------------
(* Words and word lists *)

W_EMPTY == << >>
W_A     == <<"A">>
W_ON    == <<"O", "N">>
W_AT    == <<"A", "T">>
W_CAT   == <<"C", "A", "T">>
W_STAR  == <<"S", "T", "A", "R">>
W_MOON  == <<"M", "O", "O", "N">>
\* 11 and 12 letters: inside the 4-12 range the prompt asks for
W_11    == <<"T", "E", "L", "E", "V", "I", "S", "I", "O", "N", "S">>
W_12    == <<"P", "H", "O", "T", "O", "G", "R", "A", "P", "H", "E", "R">>

Item(w, cl) == [word |-> w, clue |-> cl]

\* word/clue pairs handed to generate by a direct caller
Pool == { Item(W_EMPTY, "c0"), Item(W_ON, "c1"), Item(W_AT, "c2"),
          Item(W_CAT, "c3"), Item(W_STAR, "c4") }

SeqsUpTo(S, n) == UNION { [1..k -> S] : k \in 0..n }

DirectSizes == 2..MaxSize
DirectLists == SeqsUpTo(Pool, MaxWords)

---------------------------------------------------------------------------
(* Python list indexing *)

\* index i is legal for a list of length n
InRange(i, n) == -n <= i /\ i < n
\* the position a legal index denotes: a negative index counts from the end
PyIdx(i, n) == IF i < 0 THEN i + n ELSE i
\* self.grid[r][c]
At(g, n, r, c) == g[<<PyIdx(r, n), PyIdx(c, n)>>]

(* CrosswordGenerator.__init__ *)

Cells(n) == (0..(n - 1)) \X (0..(n - 1))
NewGrid(n) == [cell \in Cells(n) |-> EMPTY]
\* the grid of a run in which no generator exists
NoGrid == [cell \in {} |-> EMPTY]

(* CrosswordGenerator.can_place_word *)

can_place_word(g, n, word, row, col, direction) ==
    IF direction = "across"
    THEN IF col + Len(word) > n
         THEN FALSE
         ELSE /\ \A i \in 1..Len(word) :
                    LET current == At(g, n, row, col + (i - 1))
                    IN  ~(current # EMPTY /\ current # word[i])
              /\ ~(col > 0 /\ At(g, n, row, col - 1) # EMPTY)
              /\ ~(col + Len(word) < n /\ At(g, n, row, col + Len(word)) # EMPTY)
    ELSE IF row + Len(word) > n
         THEN FALSE
         ELSE /\ \A i \in 1..Len(word) :
                    LET current == At(g, n, row + (i - 1), col)
                    IN  ~(current # EMPTY /\ current # word[i])
              /\ ~(row > 0 /\ At(g, n, row - 1, col) # EMPTY)
              /\ ~(row + Len(word) < n /\ At(g, n, row + Len(word), col) # EMPTY)

(* CrosswordGenerator.place_word *)

\* the letter loop: letters i..len(word) are written one after the other; an
\* index outside the list raises IndexError and leaves the letters written so far
RECURSIVE WriteLetters(_, _, _, _, _, _, _)
WriteLetters(g, n, word, row, col, direction, i) ==
    IF i > Len(word)
    THEN [grid |-> g, raised |-> FALSE]
    ELSE LET r == IF direction = "across" THEN row ELSE row + (i - 1)
             c == IF direction = "across" THEN col + (i - 1) ELSE col
         IN  IF ~InRange(r, n) \/ ~InRange(c, n)
             THEN [grid |-> g, raised |-> TRUE]
             ELSE WriteLetters([g EXCEPT ![<<PyIdx(r, n), PyIdx(c, n)>>] = word[i]],
                               n, word, row, col, direction, i + 1)

PlacedWord(word, row, col, direction, clue) ==
    [word |-> word, row |-> row, col |-> col, direction |-> direction, clue |-> clue]

\* the grid and placed_words after place_word, or the grid of the interrupted
\* letter loop when it raised
place_word(g, pws, n, word, row, col, direction, clue) ==
    LET w == WriteLetters(g, n, word, row, col, direction, 1)
    IN  [grid   |-> w.grid,
         placed |-> IF w.raised THEN pws
                    ELSE Append(pws, PlacedWord(word, row, col, direction, clue)),
         raised |-> w.raised]

(* CrosswordGenerator.find_intersections *)

\* the candidate of letter i of word against letter j of a placed word (1-based)
Candidate(word, placed, n, i, j) ==
    IF word[i] # placed.word[j]
    THEN << >>
    ELSE IF placed.direction = "across"
         THEN LET new_row == placed.row - (i - 1)
                  new_col == placed.col + (j - 1)
              IN  IF 0 <= new_row /\ new_row <= n - Len(word)
                  THEN << <<new_row, new_col, "down">> >>
                  ELSE << >>
         ELSE LET new_row == placed.row + (j - 1)
                  new_col == placed.col - (i - 1)
              IN  IF 0 <= new_col /\ new_col <= n - Len(word)
                  THEN << <<new_row, new_col, "across">> >>
                  ELSE << >>

RECURSIVE ForPlacedLetters(_, _, _, _, _)
ForPlacedLetters(word, placed, n, i, j) ==
    IF j > Len(placed.word) THEN << >>
    ELSE Candidate(word, placed, n, i, j) \o ForPlacedLetters(word, placed, n, i, j + 1)

RECURSIVE ForLetters(_, _, _, _)
ForLetters(word, placed, n, i) ==
    IF i > Len(word) THEN << >>
    ELSE ForPlacedLetters(word, placed, n, i, 1) \o ForLetters(word, placed, n, i + 1)

RECURSIVE ForPlaced(_, _, _, _)
ForPlaced(word, pws, n, k) ==
    IF k > Len(pws) THEN << >>
    ELSE ForLetters(word, pws[k], n, 1) \o ForPlaced(word, pws, n, k + 1)

find_intersections(word, pws, n) == ForPlaced(word, pws, n, 1)

---------------------------------------------------------------------------
(* CrosswordGenerator.generate: the sort and the seed word *)

\* InsertByLength with > for >=: a sort that is not stable
RECURSIVE InsertByLengthUnstable(_, _)
InsertByLengthUnstable(sorted, item) ==
    IF sorted = << >> THEN <<item>>
    ELSE IF Len(Head(sorted).word) > Len(item.word)
         THEN <<Head(sorted)>> \o InsertByLengthUnstable(Tail(sorted), item)
         ELSE <<item>> \o sorted

\* item goes behind every entry that is at least as long: equal lengths keep
\* their order
RECURSIVE InsertByLength(_, _)
InsertByLength(sorted, item) ==
    IF sorted = << >> THEN <<item>>
    ELSE IF Len(Head(sorted).word) >= Len(item.word)
         THEN <<Head(sorted)>> \o InsertByLength(Tail(sorted), item)
         ELSE <<item>> \o sorted

\* sorted(word_data, key=len(word), reverse=True)
RECURSIVE SortByLengthDesc(_)
SortByLengthDesc(seq) ==
    IF seq = << >> THEN << >>
    ELSE InsertByLength(SortByLengthDesc(SubSeq(seq, 1, Len(seq) - 1)), seq[Len(seq)])

start_row(n) == n \div 2
start_col(n, word) == (n - Len(word)) \div 2

\* PlaceSeed without the "if words:" test: words[0] of an empty list raises
PlaceSeedUnguarded(g, pws, n, sorted) ==
    IF sorted # << >>
    THEN place_word(g, pws, n, sorted[1].word, start_row(n),
                    start_col(n, sorted[1].word), "across", sorted[1].clue)
    ELSE [grid |-> g, placed |-> pws, raised |-> TRUE]

\* the "if words:" block: the first word is placed across without a legality test
PlaceSeed(g, pws, n, sorted) ==
    IF sorted # << >>
    THEN place_word(g, pws, n, sorted[1].word, start_row(n),
                    start_col(n, sorted[1].word), "across", sorted[1].clue)
    ELSE [grid |-> g, placed |-> pws, raised |-> FALSE]

\* LegalIntersections without the can_place_word test: every position found
AllIntersections(g, pws, n, word) ==
    LET positions == find_intersections(word, pws, n)
    IN  { positions[k] : k \in 1..Len(positions) }

\* the positions of find_intersections that pass can_place_word: after the
\* shuffle any one of them can be the first that passes
LegalIntersections(g, pws, n, word) ==
    LET positions == find_intersections(word, pws, n)
    IN  { positions[k] : k \in { m \in 1..Len(positions) :
            can_place_word(g, n, word, positions[m][1], positions[m][2], positions[m][3]) } }

Directions == {"across", "down"}

---------------------------------------------------------------------------
(* CrosswordGenerator.get_numbered_clues *)

is_across_start(g, n, r, c) ==
    /\ (c = 0 \/ g[<<r, c - 1>>] = EMPTY)
    /\ c < n - 1
    /\ g[<<r, c + 1>>] # EMPTY

is_down_start(g, n, r, c) ==
    /\ (r = 0 \/ g[<<r - 1, c>>] = EMPTY)
    /\ r < n - 1
    /\ g[<<r + 1, c>>] # EMPTY

\* the cell gets a number
IsStart(g, n, r, c) ==
    /\ g[<<r, c>>] # EMPTY
    /\ (is_across_start(g, n, r, c) \/ is_down_start(g, n, r, c))

\* the inner loop of the scan, row r from column c on: the entries of number_map
\* in the order they are inserted
RECURSIVE ScanRow(_, _, _, _, _)
ScanRow(g, n, r, c, counter) ==
    IF c >= n THEN << >>
    ELSE IF IsStart(g, n, r, c)
         THEN <<[cell |-> <<r, c>>, number |-> counter]>>
              \o ScanRow(g, n, r, c + 1, counter + 1)
         ELSE ScanRow(g, n, r, c + 1, counter)

\* ScanCells with the counter not carried from one row to the next
RECURSIVE ScanCellsRestart(_, _, _, _)
ScanCellsRestart(g, n, r, counter) ==
    IF r >= n THEN << >>
    ELSE ScanRow(g, n, r, 0, counter) \o ScanCellsRestart(g, n, r + 1, counter)

\* the outer loop of the scan, from row r on: counter goes on where the row
\* before left it
RECURSIVE ScanCells(_, _, _, _)
ScanCells(g, n, r, counter) ==
    IF r >= n THEN << >>
    ELSE LET row == ScanRow(g, n, r, 0, counter)
         IN  row \o ScanCells(g, n, r + 1, counter + Len(row))

NumberMap(g, n) == ScanCells(g, n, 0, 1)

\* pos in number_map
InMap(map, pos) == \E k \in 1..Len(map) : map[k].cell = pos
\* number_map[pos]
MapGet(map, pos) == map[CHOOSE k \in 1..Len(map) : map[k].cell = pos].number

ClueObj(map, word_info) ==
    [number |-> MapGet(map, <<word_info.row, word_info.col>>),
     clue   |-> word_info.clue,
     answer |-> word_info.word]

\* the clue objects of one direction, in placed_words order
RECURSIVE CluesOf(_, _, _, _)
CluesOf(map, pws, direction, k) ==
    IF k > Len(pws) THEN << >>
    ELSE (IF /\ InMap(map, <<pws[k].row, pws[k].col>>)
             /\ (pws[k].direction = "across") = (direction = "across")
          THEN <<ClueObj(map, pws[k])>>
          ELSE << >>) \o CluesOf(map, pws, direction, k + 1)

RECURSIVE InsertByNumber(_, _)
InsertByNumber(sorted, obj) ==
    IF sorted = << >> THEN <<obj>>
    ELSE IF Head(sorted).number <= obj.number
         THEN <<Head(sorted)>> \o InsertByNumber(Tail(sorted), obj)
         ELSE <<obj>> \o sorted

\* list.sort(key=number)
RECURSIVE SortByNumber(_)
SortByNumber(seq) ==
    IF seq = << >> THEN << >>
    ELSE InsertByNumber(SortByNumber(SubSeq(seq, 1, Len(seq) - 1)), seq[Len(seq)])

across_clues(map, pws) == SortByNumber(CluesOf(map, pws, "across", 1))
down_clues(map, pws) == SortByNumber(CluesOf(map, pws, "down", 1))

---------------------------------------------------------------------------
(* Word Source: _http_post, _extract_content, _generate_words_with_ai *)

UpperLetters == {"A", "B", "C", "D", "E", "F", "G", "H", "I", "J", "K", "L", "M",
                 "N", "O", "P", "Q", "R", "S", "T", "U", "V", "W", "X", "Y", "Z"}

\* str.upper on one character
UpperChar(ch) ==
    CASE ch = "a" -> "A"
      [] ch = "c" -> "C"
      [] ch = "t" -> "T"
      [] OTHER    -> ch

Upper(w) == [i \in 1..Len(w) |-> UpperChar(w[i])]

\* str.strip
RECURSIVE LStrip(_)
LStrip(w) == IF w # << >> /\ Head(w) = " " THEN LStrip(Tail(w)) ELSE w
RECURSIVE RStrip(_)
RStrip(w) == IF w # << >> /\ w[Len(w)] = " " THEN RStrip(SubSeq(w, 1, Len(w) - 1)) ELSE w
Strip(w) == RStrip(LStrip(w))

\* re.match(r'^[A-Z]+$', word)
MatchesAZ(w) == w # << >> /\ \A i \in 1..Len(w) : w[i] \in UpperLetters

\* one element of the parsed JSON array: is_dict says it is a dict holding both keys
RawItem(is_dict, w, cl) == [is_dict |-> is_dict, word |-> w, clue |-> cl]

\* the valid_words loop
RECURSIVE ValidWords(_)
ValidWords(items) ==
    IF items = << >> THEN << >>
    ELSE LET item == Head(items)
             word == Strip(Upper(item.word))
         IN  (IF item.is_dict /\ word # << >> /\ MatchesAZ(word)
              THEN <<Item(word, item.clue)>>
              ELSE << >>) \o ValidWords(Tail(items))

\* valid_words[:count]
Take(seq, k) == SubSeq(seq, 1, IF Len(seq) < k THEN Len(seq) ELSE k)

\* the body of a provider response: has_text says choices[0].message.content is a
\* string, blank that it holds white space only, has_array that the regular
\* expression finds a bracketed part, json_ok that json.loads accepts that part
Body(has_text, blank, has_array, json_ok, items) ==
    [has_text |-> has_text, blank |-> blank, has_array |-> has_array,
     json_ok |-> json_ok, items |-> items]

NoBody == Body(FALSE, FALSE, FALSE, FALSE, << >>)
Text(items) == Body(TRUE, FALSE, TRUE, TRUE, items)

\* what can come back from client.post
Wire(kind, code, body) == [kind |-> kind, status_code |-> code, body |-> body]

NoWire == Wire("none", 0, NoBody)

Wires ==
    { Wire("timeout", 0, NoBody),
      Wire("exception", 0, NoBody),
      Wire("response", 429, NoBody),
      Wire("response", 200, NoBody),
      Wire("response", 200, Body(TRUE, TRUE, FALSE, FALSE, << >>)),
      Wire("response", 200, Body(TRUE, FALSE, FALSE, FALSE, << >>)),
      Wire("response", 200, Body(TRUE, FALSE, TRUE, FALSE, << >>)),
      Wire("response", 200, Text(<< >>)),
      Wire("response", 200, Text(<<RawItem(FALSE, W_CAT, "c3")>>)),
      Wire("response", 200, Text(<<RawItem(TRUE, <<" ", " ">>, "c0")>>)),
      Wire("response", 200, Text(<<RawItem(TRUE, <<"A", "1">>, "c1")>>)),
      Wire("response", 200, Text(<<RawItem(TRUE, <<" ", "c", "a", "t">>, "c3")>>)),
      Wire("response", 200, Text(<<RawItem(TRUE, W_STAR, "c4"), RawItem(TRUE, W_CAT, "c3")>>)),
      Wire("response", 200, Text(<<RawItem(TRUE, W_STAR, "c4"), RawItem(TRUE, W_MOON, "c7")>>)),
      Wire("response", 200, Text(<<RawItem(TRUE, <<>>, "c0"), RawItem(TRUE, W_AT, "c2"),
                                   RawItem(TRUE, W_A, "c1")>>)),
      Wire("response", 200, Text(<<RawItem(TRUE, W_11, "c5")>>)),
      Wire("response", 200, Text(<<RawItem(TRUE, W_CAT, "c3"), RawItem(TRUE, W_12, "c6")>>)),
      Wire("response", 200, Text(<<RawItem(TRUE, W_STAR, "c4"), RawItem(TRUE, W_CAT, "c3"),
                                   RawItem(TRUE, W_AT, "c2")>>)),
      Wire("response", 200, Text(<<RawItem(TRUE, W_AT, "c2"), RawItem(TRUE, W_AT, "c8"),
                                   RawItem(TRUE, W_A, "c1")>>)),
      Wire("response", 200, Text(<<RawItem(TRUE, W_CAT, "c3"), RawItem(TRUE, W_11, "c5")>>)) }

\* (status_code, data) of _http_post
http_post(wire) ==
    CASE wire.kind = "timeout"   -> [status_code |-> 408, body |-> NoBody]
      [] wire.kind = "exception" -> [status_code |-> 500, body |-> NoBody]
      [] OTHER                   -> [status_code |-> wire.status_code, body |-> wire.body]

\* _extract_content(data) is not None
has_content(body) == body.has_text /\ ~body.blank

\* parse_words without the "if valid_words:" test: an empty list is returned
parse_words_lenient(body, cnt) ==
    LET valid_words == IF body.has_array /\ body.json_ok
                       THEN ValidWords(body.items) ELSE << >>
    IN  [raised |-> FALSE, words |-> Take(valid_words, cnt)]

\* the try block: the words returned, or raised when it ends in the HTTPException
parse_words(body, cnt) ==
    LET valid_words == IF body.has_array /\ body.json_ok
                       THEN ValidWords(body.items) ELSE << >>
    IN  IF valid_words # << >>
        THEN [raised |-> FALSE, words |-> Take(valid_words, cnt)]
        ELSE [raised |-> TRUE, words |-> << >>]

\* _generate_words_with_ai: status is "200" when words are returned and the
\* HTTPException's status_code otherwise; calls counts the _http_post calls
generate_words_with_ai(conf, wire, cnt) ==
    IF ~conf
    THEN [status |-> "500", words |-> << >>, calls |-> 0]
    ELSE LET r == http_post(wire)
         IN  IF r.status_code >= 400
             THEN [status |-> "502", words |-> << >>, calls |-> 1]
             ELSE IF ~has_content(r.body)
                  THEN [status |-> "502", words |-> << >>, calls |-> 1]
                  ELSE LET p == parse_words(r.body, cnt)
                       IN  IF p.raised
                           THEN [status |-> "500", words |-> << >>, calls |-> 1]
                           ELSE [status |-> "200", words |-> p.words, calls |-> 1]

---------------------------------------------------------------------------
(* The runs *)

\* CrosswordRequest: size has ge=10 and default 15, word_count ge=5 and default 10
RequestSizes == {MinSize, DefaultSize}
RequestCounts == {MinCount, DefaultCount}

Init ==
    /\ pc = "idle"
    /\ entry = "none"
    /\ size = 0
    /\ count = 0
    /\ configured = TRUE
    /\ reply = NoWire
    /\ wsCalls = 0
    /\ built = FALSE
    /\ word_data = << >>
    /\ words = << >>
    /\ idx = 0
    /\ attempts = 0
    /\ grid = NoGrid
    /\ placed_words = << >>
    /\ number_map = << >>
    /\ across = << >>
    /\ down = << >>
    /\ word_count = 0
    /\ status = "none"

\* POST /api/crossword/generate arrives: generate_crossword up to the await
Request ==
    /\ pc = "idle"
    /\ entry' = "endpoint"
    /\ size' \in RequestSizes
    /\ count' \in RequestCounts
    /\ configured' \in BOOLEAN
    /\ pc' = "await_words"
    /\ UNCHANGED <<reply, wsCalls, built, word_data, words, idx, attempts, grid,
                   placed_words, number_map, across, down, word_count, status>>

\* words = await _generate_words_with_ai(theme, count=word_count): the words, or
\* the HTTPException that generate_crossword raises again
AwaitWords ==
    /\ pc = "await_words"
    /\ \E wire \in Wires :
         LET res == generate_words_with_ai(configured, wire, count)
         IN  /\ reply' = IF res.calls = 0 THEN NoWire ELSE wire
             /\ wsCalls' = wsCalls + res.calls
             /\ IF res.status = "200"
                THEN /\ word_data' = res.words
                     /\ pc' = "construct"
                     /\ UNCHANGED status
                ELSE /\ pc' = "failed"
                     /\ status' = res.status
                     /\ UNCHANGED word_data
    /\ UNCHANGED <<entry, size, count, configured, built, words, idx, attempts, grid,
                   placed_words, number_map, across, down, word_count>>

\* generator = CrosswordGenerator(size=size)
Construct ==
    /\ pc = "construct"
    /\ built' = TRUE
    /\ grid' = NewGrid(size)
    /\ placed_words' = << >>
    /\ pc' = "generate"
    /\ UNCHANGED <<entry, size, count, configured, reply, wsCalls, word_data, words,
                   idx, attempts, number_map, across, down, word_count, status>>

\* a caller of the class builds CrosswordGenerator(size) and hands it a word list
DirectUse ==
    /\ pc = "idle"
    /\ entry' = "direct"
    /\ size' \in DirectSizes
    /\ word_data' \in DirectLists
    /\ built' = TRUE
    /\ grid' = NewGrid(size')
    /\ placed_words' = << >>
    /\ pc' = "generate"
    /\ UNCHANGED <<count, configured, reply, wsCalls, words, idx, attempts,
                   number_map, across, down, word_count, status>>

\* where generate goes after word i - 1 of the sorted list
NextPc(sorted, i) == IF i <= Len(sorted) THEN "place" ELSE "clues"

\* an exception leaving generate: the route turns it into a 500
Raised == IF entry = "endpoint" THEN "500" ELSE "IndexError"

\* the effect of one place_word call made for word i of the sorted list
Placed(res, sorted, i) ==
    /\ grid' = res.grid
    /\ placed_words' = res.placed
    /\ IF res.raised
       THEN /\ pc' = "failed"
            /\ status' = Raised
            /\ idx' = i
       ELSE /\ pc' = NextPc(sorted, i + 1)
            /\ idx' = i + 1
            /\ UNCHANGED status

\* generate: the sort and the seed word
GenerateSeed ==
    /\ pc = "generate"
    /\ words' = SortByLengthDesc(word_data)
    /\ Placed(PlaceSeed(grid, placed_words, size, words'), words', 1)
    /\ attempts' = 0
    /\ UNCHANGED <<entry, size, count, configured, reply, wsCalls, built, word_data,
                   number_map, across, down, word_count>>

\* generate: find_intersections, the shuffle and the loop over the candidates for
\* word idx
TryIntersections ==
    /\ pc = "place"
    /\ LET word == words[idx].word
           legal == LegalIntersections(grid, placed_words, size, word)
       IN  IF legal # {}
           THEN \E pos \in legal :
                    Placed(place_word(grid, placed_words, size, word, pos[1], pos[2],
                                      pos[3], words[idx].clue), words, idx)
           ELSE /\ pc' = "random"
                /\ UNCHANGED <<grid, placed_words, idx, status>>
    /\ attempts' = 0
    /\ UNCHANGED <<entry, size, count, configured, reply, wsCalls, built, word_data,
                   words, number_map, across, down, word_count>>

\* RandomAttempt with "attempts <= 100" as the loop condition: one turn more
RandomAttemptOneMore ==
    /\ pc = "random"
    /\ attempts <= MaxAttempts
    /\ \E row \in 0..(size - 1), col \in 0..(size - 1), direction \in Directions :
         LET word == words[idx].word
         IN  IF can_place_word(grid, size, word, row, col, direction)
             THEN /\ Placed(place_word(grid, placed_words, size, word, row, col,
                                       direction, words[idx].clue), words, idx)
                  /\ attempts' = 0
             ELSE /\ UNCHANGED <<grid, placed_words, status>>
                  /\ IF attempts + 1 <= MaxAttempts
                     THEN /\ attempts' = attempts + 1
                          /\ UNCHANGED <<pc, idx>>
                     ELSE /\ attempts' = 0
                          /\ pc' = NextPc(words, idx + 1)
                          /\ idx' = idx + 1
    /\ UNCHANGED <<entry, size, count, configured, reply, wsCalls, built, word_data,
                   words, number_map, across, down, word_count>>

\* generate: one turn of the random fallback loop for word idx; attempts is a
\* local of the loop and reads 0 outside it
RandomAttempt ==
    /\ pc = "random"
    /\ attempts < MaxAttempts
    /\ \E row \in 0..(size - 1), col \in 0..(size - 1), direction \in Directions :
         LET word == words[idx].word
         IN  IF can_place_word(grid, size, word, row, col, direction)
             THEN /\ Placed(place_word(grid, placed_words, size, word, row, col,
                                       direction, words[idx].clue), words, idx)
                  /\ attempts' = 0
             ELSE /\ UNCHANGED <<grid, placed_words, status>>
                  /\ IF attempts + 1 < MaxAttempts
                     THEN /\ attempts' = attempts + 1
                          /\ UNCHANGED <<pc, idx>>
                     ELSE /\ attempts' = 0
                          /\ pc' = NextPc(words, idx + 1)
                          /\ idx' = idx + 1
    /\ UNCHANGED <<entry, size, count, configured, reply, wsCalls, built, word_data,
                   words, number_map, across, down, word_count>>

\* get_numbered_clues and the response of the route
NumberClues ==
    /\ pc = "clues"
    /\ number_map' = NumberMap(grid, size)
    /\ across' = across_clues(number_map', placed_words)
    /\ down' = down_clues(number_map', placed_words)
    /\ word_count' = Len(placed_words)
    /\ status' = "200"
    /\ pc' = "done"
    /\ UNCHANGED <<entry, size, count, configured, reply, wsCalls, built, word_data,
                   words, idx, attempts, grid, placed_words>>

Next ==
    \/ Request
    \/ AwaitWords
    \/ Construct
    \/ DirectUse
    \/ GenerateSeed
    \/ TryIntersections
    \/ RandomAttempt
    \/ NumberClues

Spec == Init /\ [][Next]_vars

\* where generate stands: pc, the loop index and the loop counter
position == <<pc, idx, attempts>>

\* generate is one synchronous call: while it is under way its next statement
\* runs, and every statement of it moves position
GenerateRuns ==
    /\ pc \in {"generate", "place", "random"}
    /\ pc' \in {"place", "random", "clues", "failed"}
    /\ idx' \in 1..(Len(word_data) + 2)
    /\ attempts' \in 0..MaxAttempts

FairSpec == Spec /\ WF_position(GenerateRuns)

---------------------------------------------------------------------------
(* Vocabulary of the properties *)

PlacedIdx == 1..Len(placed_words)

\* the grid cell that place_word addressed for letter k of a placed word
LetterCell(p, k) ==
    IF p.direction = "across"
    THEN <<PyIdx(p.row, size), PyIdx(p.col + (k - 1), size)>>
    ELSE <<PyIdx(p.row + (k - 1), size), PyIdx(p.col, size)>>

\* the coordinates of letter k of a placed word, counted from (row, col)
RunCoord(p, k) ==
    IF p.direction = "across"
    THEN <<p.row, p.col + (k - 1)>>
    ELSE <<p.row + (k - 1), p.col>>

InGrid(cell) == cell \in Cells(size)

\* the cells of the run of a placed word
Run(p) == { RunCoord(p, k) : k \in 1..Len(p.word) }

\* the coordinates just before the start and just behind the end of a placed word
Before(p) == RunCoord(p, 0)
After(p) == RunCoord(p, Len(p.word) + 1)

\* every word handed to generate has between 1 and size letters
CleanInput == \A k \in 1..Len(word_data) :
                 Len(word_data[k].word) >= 1 /\ Len(word_data[k].word) <= size

\* generate is running or has returned
Generating == pc \in {"place", "random", "clues", "done"}

---------------------------------------------------------------------------
(* C1: no-overwrite invariant.  In every state of generate, the cell that     *)
(* holds letter k of a placed word holds exactly that letter: no letter of a *)
(* placed word was replaced by a different one.                              *)
C1_NoOverwrite ==
    \A i \in PlacedIdx :
        \A k \in 1..Len(placed_words[i].word) :
            grid[LetterCell(placed_words[i], k)] = placed_words[i].word[k]

(* C2: separation invariant.  In every state of generate on words of 1 to    *)
(* size letters, the in-grid cell just before the start and just behind the  *)
(* end of every placed word is empty, unless that cell is a crossing of the  *)
(* word with a perpendicular word; also after later words were placed.       *)
IsCrossing(p, cell) ==
    /\ cell \in Run(p)
    /\ \E j \in PlacedIdx : /\ placed_words[j].direction # p.direction
                            /\ cell \in Run(placed_words[j])

SeparatedAt(p, cell) == InGrid(cell) => (grid[cell] = EMPTY \/ IsCrossing(p, cell))

C2_Separation ==
    CleanInput =>
        \A i \in PlacedIdx :
            /\ SeparatedAt(placed_words[i], Before(placed_words[i]))
            /\ SeparatedAt(placed_words[i], After(placed_words[i]))

(* C3: scenario D.  A word longer than size is never placed: it is not in    *)
(* placed_words, every letter of the grid belongs to a placed word, and      *)
(* generate does not raise but goes on with the other words.                 *)
C3_OversizeDropped ==
    /\ \A i \in PlacedIdx : Len(placed_words[i].word) <= size
    /\ built =>
         \A cell \in Cells(size) :
            grid[cell] # EMPTY =>
               \E i \in PlacedIdx : \E k \in 1..Len(placed_words[i].word) :
                   LetterCell(placed_words[i], k) = cell
    /\ ~(built /\ pc = "failed")

(* C4: bounds invariant.  Every entry of placed_words has 0 <= row, col <    *)
(* size and all cells of its run inside the grid.                            *)
C4_Bounds ==
    \A i \in PlacedIdx :
        /\ 0 <= placed_words[i].row /\ placed_words[i].row < size
        /\ 0 <= placed_words[i].col /\ placed_words[i].col < size
        /\ \A cell \in Run(placed_words[i]) : InGrid(cell)

(* C5: an empty-string word never makes generate raise and is dropped: it    *)
(* is never an entry of placed_words and is not counted in word_count.       *)
NonEmptyWords == { k \in 1..Len(word_data) : word_data[k].word # << >> }

C5_EmptyWordDropped ==
    /\ \A i \in PlacedIdx : placed_words[i].word # << >>
    /\ pc = "done" => word_count <= Cardinality(NonEmptyWords)
    /\ (\E k \in 1..Len(word_data) : word_data[k].word = << >>) => pc # "failed"

(* C6: every placed word gets exactly one clue entry.  After generate on     *)
(* words of 1 to size letters, each list holds as many entries as there are  *)
(* placed words of its direction, every placed word is the answer of an      *)
(* entry of its list, and len(across) + len(down) = word_count.              *)
PlacedOf(direction) == { i \in PlacedIdx : placed_words[i].direction = direction }

HasClue(p, list) == \E k \in 1..Len(list) : list[k].answer = p.word /\ list[k].clue = p.clue

C6_OneCluePerWord ==
    (pc = "done" /\ CleanInput) =>
        /\ Len(across) = Cardinality(PlacedOf("across"))
        /\ Len(down) = Cardinality(PlacedOf("down"))
        /\ \A i \in PlacedOf("across") : HasClue(placed_words[i], across)
        /\ \A i \in PlacedOf("down") : HasClue(placed_words[i], down)
        /\ Len(across) + Len(down) = word_count

(* C7: numbering uniqueness.  In the number_map of every finished grid the   *)
(* numbered cells are the start cells of the grid, each once; the numbers    *)
(* are pairwise distinct, are exactly 1..n, and grow strictly with the       *)
(* row-major position of their cells.                                        *)
Filled(cell) == InGrid(cell) /\ grid[cell] # EMPTY

StartsAcross(cell) ==
    Filled(cell) /\ ~Filled(<<cell[1], cell[2] - 1>>) /\ Filled(<<cell[1], cell[2] + 1>>)

StartsDown(cell) ==
    Filled(cell) /\ ~Filled(<<cell[1] - 1, cell[2]>>) /\ Filled(<<cell[1] + 1, cell[2]>>)

RowMajorBefore(a, b) == a[1] < b[1] \/ (a[1] = b[1] /\ a[2] < b[2])

MapIdx == 1..Len(number_map)

C7_Numbering ==
    pc = "done" =>
        /\ { number_map[k].cell : k \in MapIdx }
              = { cell \in Cells(size) : StartsAcross(cell) \/ StartsDown(cell) }
        /\ \A j, k \in MapIdx : number_map[j].cell = number_map[k].cell => j = k
        /\ \A j, k \in MapIdx : number_map[j].number = number_map[k].number => j = k
        /\ { number_map[k].number : k \in MapIdx } = 1..Len(number_map)
        /\ \A j, k \in MapIdx :
              RowMajorBefore(number_map[j].cell, number_map[k].cell)
                 => number_map[j].number < number_map[k].number

\* a finished grid with numbers in two rows and a cell that starts an across and
\* a down run
C7_Witness ==
    /\ pc = "done"
    /\ \E j, k \in MapIdx : number_map[j].cell[1] # number_map[k].cell[1]
    /\ \E k \in MapIdx : StartsAcross(number_map[k].cell) /\ StartsDown(number_map[k].cell)

(* C8: seed placement.  Once generate is past the seed step on a non-empty   *)
(* list, placed_words[1] is the first word of maximal length in the supplied *)
(* order, across at row size // 2, column (size - len(word)) // 2.  Scenario *)
(* A: CAT alone at size 15 ends with one across word at row 7, col 6,        *)
(* word_count 1, one across clue numbered 1 and no down clue.                *)
IsFirstLongest(k) ==
    /\ \A j \in 1..Len(word_data) : Len(word_data[j].word) <= Len(word_data[k].word)
    /\ \A j \in 1..(k - 1) : Len(word_data[j].word) < Len(word_data[k].word)

WireFails(w) ==
    \/ w.kind \in {"timeout", "exception"}
    \/ w.status_code >= 400
    \/ ~w.body.has_text
    \/ w.body.blank
    \/ ~w.body.has_array
    \/ ~w.body.json_ok
    \/ \A k \in 1..Len(w.body.items) :
          \/ ~w.body.items[k].is_dict
          \/ \E i \in 1..Len(w.body.items[k].word) :
                 w.body.items[k].word[i] \notin UpperLetters \cup {"a", "c", "t", " "}
          \/ \A i \in 1..Len(w.body.items[k].word) : w.body.items[k].word[i] = " "

WordSourceFailed ==
    /\ entry = "endpoint"
    /\ pc # "await_words"
    /\ (~configured \/ WireFails(reply))

C9_AllOrNothing ==
    WordSourceFailed =>
        /\ pc = "failed"
        /\ status \in {"500", "502"}
        /\ ~built
        /\ grid = NoGrid
        /\ placed_words = << >>
        /\ number_map = << >> /\ across = << >> /\ down = << >> /\ word_count = 0
        /\ wsCalls <= 1

\* a request whose provider call timed out
C9_Witness ==
    /\ pc = "failed"
    /\ entry = "endpoint"
    /\ reply.kind = "timeout"
    /\ wsCalls = 1

(* C10: empty word list.  As claimed: when the Word Source ends with an      *)
(* empty word list, the request does not fail and ends with an all-empty     *)
(* grid, no placed word, word_count 0 and empty clue lists.                  *)
EmptyWordSourceResult ==
    /\ entry = "endpoint"
    /\ pc # "await_words"
    /\ configured
    /\ reply.kind = "response" /\ reply.status_code < 400
    /\ reply.body.has_text /\ ~reply.body.blank
    /\ reply.body.has_array /\ reply.body.json_ok
    /\ ValidWords(reply.body.items) = << >>

AllEmptyResult ==
    /\ grid = NewGrid(size)
    /\ placed_words = << >>
    /\ word_count = 0
    /\ across = << >>
    /\ down = << >>
    /\ status = "200"

C10_EmptyFromWordSource ==
    EmptyWordSourceResult => (pc # "failed" /\ (pc = "done" => AllEmptyResult))

(* C10 as amended: generate on an empty word list does not raise and ends    *)
(* with an all-empty grid, no placed word, word_count 0 and empty clue       *)
(* lists; the Word Source never hands over an empty list: a reply without a  *)
(* valid word ends the request with status 500 before a generator is built.  *)
C10_EmptyList ==
    /\ (built /\ word_data = << >>) => pc # "failed"
    /\ (pc = "done" /\ word_data = << >>) => AllEmptyResult
    /\ EmptyWordSourceResult => (pc = "failed" /\ status = "500" /\ ~built)
    /\ (entry = "endpoint" /\ built) => word_data # << >>

\* generate has returned from an empty word list
C10_Witness == pc = "done" /\ entry = "direct" /\ word_data = << >>

---------------------------------------------------------------------------
(* Vocabulary of the placement loop *)

\* the word that the loop of generate is working on
CurWord == words[idx].word

\* the candidates of find_intersections for that word, in the order found
CurPositions == find_intersections(CurWord, placed_words, size)

\* the candidates that pass the legality check on the grid as it stands
PassingPositions ==
    { CurPositions[k] : k \in { m \in 1..Len(CurPositions) :
        can_place_word(grid, size, CurWord, CurPositions[m][1], CurPositions[m][2],
                       CurPositions[m][3]) } }

\* words a and b run in different directions and share a cell that is letter
\* i of a and letter j of b, the same letter, which grid g holds there
CrossOn(g, a, b) ==
    /\ a.direction # b.direction
    /\ \E i \in 1..Len(a.word), j \in 1..Len(b.word) :
         /\ a.word[i] = b.word[j]
         /\ RunCoord(a, i) = RunCoord(b, j)
         /\ g[LetterCell(a, i)] = a.word[i]

\* this step appended exactly one entry to placed_words
AppendedOne ==
    /\ Len(placed_words') = Len(placed_words) + 1
    /\ SubSeq(placed_words', 1, Len(placed_words)) = placed_words

\* the entry that this step appended
Newest == placed_words'[Len(placed_words')]

\* the step that handles the candidates of the current word
IntersectionStep ==
    pc = "place" =>
        IF PassingPositions # {}
        THEN /\ AppendedOne
             /\ Newest.word = CurWord
             /\ Newest.clue = words[idx].clue
             /\ <<Newest.row, Newest.col, Newest.direction>> \in PassingPositions
             /\ \E q \in PlacedIdx : CrossOn(grid', Newest, placed_words[q])
             /\ pc' \in {"place", "clues"}
             /\ idx' = idx + 1
        ELSE /\ pc' = "random"
             /\ idx' = idx
             /\ placed_words' = placed_words
             /\ grid' = grid

\* the random loop is entered from the candidates only, and placed_words gains
\* at most one entry in a step
RandomStep ==
    /\ (pc' = "random" /\ pc # "random") => (pc = "place" /\ PassingPositions = {})
    /\ Len(placed_words') <= Len(placed_words) + 1

\* the two words handed to generate are STAR and CAT and the grid takes STAR
StarAndCat ==
    /\ Len(word_data) = 2
    /\ { word_data[1].word, word_data[2].word } = { W_STAR, W_CAT }
    /\ size >= Len(W_STAR)

\* while a word is in the random loop none of its candidates is legal, and no
\* more entries are placed than words were handled
RandomOnlyAfterCandidates ==
    /\ pc = "random" => PassingPositions = {}
    /\ pc \in {"place", "random"} => Len(placed_words) <= idx - 1
    /\ pc \in {"clues", "done"} => Len(placed_words) <= Len(words)

\* generate on STAR and CAT ends with both placed and crossing
ScenarioC ==
    (pc \in {"clues", "done"} /\ StarAndCat) =>
        /\ Len(placed_words) = 2
        /\ placed_words[1].word = W_STAR
        /\ placed_words[2].word = W_CAT
        /\ CrossOn(grid, placed_words[2], placed_words[1])

(* C11: intersection first.  When generate handles a word after the seed     *)
(* and at least one candidate of find_intersections passes can_place_word,   *)
(* the word is placed in that step, once, at one of the passing candidates,  *)
(* perpendicular to an earlier placed word and crossing it on a cell that    *)
(* holds the shared letter; the random loop is entered only when no          *)
(* candidate passes, and while it runs none does.  STAR and CAT on a grid    *)
(* that takes STAR both end up placed and cross on a shared letter.          *)
C11_IntersectionFirst ==
    /\ [](RandomOnlyAfterCandidates /\ ScenarioC)
    /\ [][IntersectionStep /\ RandomStep]_vars

\* the route has answered for STAR and CAT at size 15: CAT stands down across STAR
C11_Witness ==
    /\ pc = "done"
    /\ entry = "endpoint"
    /\ size = DefaultSize
    /\ StarAndCat
    /\ Len(placed_words) = 2
    /\ placed_words[2].word = W_CAT
    /\ placed_words[2].direction = "down"
    /\ CrossOn(grid, placed_words[2], placed_words[1])

\* a word went to the random loop although find_intersections had candidates
C11_AllCandidatesFail ==
    /\ pc = "random"
    /\ Len(CurPositions) > 0

---------------------------------------------------------------------------
\* the step that makes one random legality test for the current word
FallbackStep ==
    pc = "random" =>
        IF placed_words' # placed_words
        THEN \* the test passed: the word is placed there and the loop is left
             /\ AppendedOne
             /\ Newest.word = CurWord
             /\ Newest.clue = words[idx].clue
             /\ Newest.row \in 0..(size - 1)
             /\ Newest.col \in 0..(size - 1)
             /\ can_place_word(grid, size, CurWord, Newest.row, Newest.col,
                               Newest.direction)
             /\ idx' = idx + 1
             /\ pc' = IF idx + 1 <= Len(words) THEN "place" ELSE "clues"
        ELSE \* the test failed: nothing is written, nothing is raised
             /\ grid' = grid
             /\ status' = status
             /\ IF attempts + 1 < MaxAttempts
                THEN pc' = "random" /\ idx' = idx /\ attempts' = attempts + 1
                ELSE /\ idx' = idx + 1
                     /\ pc' = IF idx + 1 <= Len(words) THEN "place" ELSE "clues"

\* the number of tests made so far for the current word stays below 100, and
\* generate returns only after the last word was handled
FallbackBound ==
    /\ pc = "random" => (attempts >= 0 /\ attempts < MaxAttempts)
    /\ pc = "random" => idx \in 2..Len(words)
    /\ (pc \in {"clues", "done"} /\ words # << >>) => idx = Len(words) + 1

\* an upper bound of the steps that generate has still to make
StepsLeft ==
    CASE pc = "generate" -> 1 + Len(word_data) * (MaxAttempts + 1)
      [] pc = "place"    -> (Len(words) - idx + 1) * (MaxAttempts + 1)
      [] pc = "random"   -> (Len(words) - idx + 1) * (MaxAttempts + 1) - 1 - attempts
      [] OTHER           -> 0

\* every step of generate uses up at least one of the steps left
Decreases ==
    pc \in {"generate", "place", "random"} => (StepsLeft' >= 0 /\ StepsLeft' < StepsLeft)

\* generate is under way
UnderWay == pc \in {"generate", "place", "random"}

(* C12: bounded fallback.  For a word in the random loop at most 100         *)
(* legality tests are made; a passing test places the word at the tested     *)
(* position and ends the loop; a failing test leaves grid and placed_words   *)
(* as they were and raises nothing; after the 100th failure the word is left *)
(* out and generate goes on with the next word; every step of generate uses  *)
(* up one of a finite number of steps left, and no call of generate stays    *)
(* under way for ever: it returns or raises.                                 *)
C12_BoundedFallback ==
    /\ []FallbackBound
    /\ [][FallbackStep /\ Decreases]_vars
    /\ []<>(~UnderWay)

\* generate returned 200 after a word with letters failed all 100 tests
C12_Witness ==
    /\ pc = "done"
    /\ status = "200"
    /\ Len(words) = 2
    /\ words[2].word # << >>
    /\ Len(placed_words) = 1

---------------------------------------------------------------------------
\* the triples (placed word q, letter i of the current word, letter j of q)
Triples ==
    { t \in PlacedIdx \X (1..Len(CurWord)) \X (1..size + 1) :
        t[3] <= Len(placed_words[t[1]].word) }

\* the two letters of a triple are the same
SameLetter(t) == CurWord[t[2]] = placed_words[t[1]].word[t[3]]

\* the position, perpendicular to the placed word, that puts letter i of the
\* current word on the cell of letter j of the placed word
CrossingPosition(t) ==
    LET p == placed_words[t[1]]
        cell == RunCoord(p, t[3])
    IN  IF p.direction = "across"
        THEN <<cell[1] - (t[2] - 1), cell[2], "down">>
        ELSE <<cell[1], cell[2] - (t[2] - 1), "across">>

\* every letter of the current word, put at pos, lies on a cell of the grid
StaysInside(pos) ==
    \A k \in 1..Len(CurWord) :
        InGrid(RunCoord([word |-> CurWord, row |-> pos[1], col |-> pos[2],
                         direction |-> pos[3]], k))

\* the triples for which a candidate is due
Due == { t \in Triples : SameLetter(t) /\ StaysInside(CrossingPosition(t)) }

\* find_intersections holds each position as often as triples are due for it
OnePerTriple ==
    /\ Len(CurPositions) = Cardinality(Due)
    /\ \A k \in 1..Len(CurPositions) :
         Cardinality({ m \in 1..Len(CurPositions) : CurPositions[m] = CurPositions[k] })
           = Cardinality({ t \in Due : CrossingPosition(t) = CurPositions[k] })

\* every placed word lies inside the grid
PlacedInsideGrid ==
    \A q \in PlacedIdx : \A k \in 1..Len(placed_words[q].word) :
        InGrid(RunCoord(placed_words[q], k))

\* the result of find_intersections as long as no placed word leaves the grid
FinderResultInsideGrid == (pc = "place" /\ PlacedInsideGrid) => OnePerTriple

(* C13: Intersection Finder result.  Whenever generate calls                 *)
(* find_intersections for a word, the result holds one candidate for every   *)
(* triple (placed word, i, j) with equal letters whose crossing position     *)
(* keeps the word inside the grid, and nothing else: each candidate is       *)
(* perpendicular to its placed word and puts letter i on the cell of letter  *)
(* j, and equal positions of different triples are all kept.                 *)
C13_FinderResult == pc = "place" => OnePerTriple

=============================================================================
